---- MODULE Spec2Model ----
(***************************************************************************)
(* Model of gopistolet/smtp package mta (src/mta/mta.go): the SMTP session *)
(* engine Mta.HandleClient with its helper reader goroutine, the session   *)
(* id generator, and the supervisor DefaultMta.ListenAndServe / listen /   *)
(* serve with the two-phase Mta.Stop.                                      *)
(*                                                                         *)
(* Goroutines are processes with a program counter; an unbuffered channel  *)
(* is a rendezvous between a blocked sender and the receiving select; a    *)
(* closed channel is a flag.  The client, the body reader, the TLS         *)
(* handshake and the mail handler are the environment: their results are   *)
(* drawn with \E.                                                          *)
(***************************************************************************)
EXTENDS Integers, Sequences, FiniteSets, TLC

\* ------------------------------------------------------------------ bounds
\* lines (commands or over-long lines) the client of a one-connection run sends
MaxCmds == 4
\* connections the clients open during a several-connection run
MaxConn == 2
\* LineTooLong errors the body reader signals during one DATA command
MaxLtl == 1
\* lines the client of a run with scheduled sessions sends
FairCmds == 3
\* lines the client of a run of envelope commands sends
DataCmds == 6

\* ------------------------------------------------------- program constants
\* a uint32 is kept as <<high, low>> 16-bit halves (2^32 exceeds TLC's integers)
Half == 65536
Hostname == "home.sweet.home"
\* reply codes of package smtp
Ready == 220
Closing == 221
Ok == 250
StartData == 354
ShuttingDown == 421
SyntaxError == 500
SyntaxErrorParam == 501
NotImplemented == 502
BadSequence == 503

\* ------------------------------------------------------------ value spaces
Conns == 1..MaxConn
\* *smtp.MailAddress: Nil is the nil pointer, Addr the parsed addresses
Nil == 0
Addr == {1, 2}
Byte == {7, 8}
\* what one ioutil.ReadAll call on the body reader can append
Chunk == {<<>>} \cup {<<b>> : b \in Byte}
NotImplKinds == {"VRFY", "EXPN", "SEND", "SOML", "SAML"}
PlainKinds == {"HELO", "EHLO", "QUIT", "DATA", "RSET", "STARTTLS", "NOOP",
               "INVALID", "UNKNOWN"} \cup NotImplKinds
\* the smtp.Cmd variants GetCmd can return (cmd.From / cmd.To in addr)
Cmds == [kind : PlainKinds, addr : {Nil}, eight : {FALSE}]
          \cup [kind : {"MAIL"}, addr : Addr, eight : BOOLEAN]
          \cup [kind : {"RCPT"}, addr : Addr, eight : {FALSE}]
\* the commands that build and send a message
EnvelopeCmds == {cmd \in Cmds : cmd.kind \in {"MAIL", "RCPT", "DATA"}}
NoCmd == [kind |-> "none", addr |-> Nil, eight |-> FALSE]
InvalidInfo == "Invalid arguments"

\* smtp.Answer and smtp.MultiAnswer
Answer(status, message) == [Status |-> status, Messages |-> <<message>>]
MultiAnswer(status, messages) == [Status |-> status, Messages |-> messages]
\* nothing written yet
NoAnswer == [Status |-> 0, Messages |-> <<>>]

\* x + 1 on a uint32, wrapping at 2^32
Inc32(x) ==
  IF x[2] + 1 < Half THEN <<x[1], x[2] + 1>> ELSE <<(x[1] + 1) % Half, 0>>

\* State{} : the zero value of the struct
ZeroState == [From |-> Nil, To |-> <<>>, Data |-> <<>>, EightBitMIME |-> FALSE,
              Secure |-> FALSE, SessionId |-> <<0, 0>>, Ip |-> 0]

\* reset, were it to clear the TLS flag with the envelope
reset_ClearSecure(s) == [s EXCEPT !.From = Nil, !.To = <<>>, !.Data = <<>>,
                                  !.EightBitMIME = FALSE, !.Secure = FALSE]

\* State.reset
reset(s) == [s EXCEPT !.From = Nil, !.To = <<>>, !.Data = <<>>,
                      !.EightBitMIME = FALSE]

\* State.canReceiveMail / canReceiveRcpt / canReceiveData : <<ok, reason>>
canReceiveMail(s) ==
  IF s.From # Nil THEN <<FALSE, "Sender already specified">> ELSE <<TRUE, "">>

canReceiveRcpt(s) ==
  IF s.From = Nil THEN <<FALSE, "Need mail before RCPT">> ELSE <<TRUE, "">>

\* canReceiveData, were it to forget the recipients
canReceiveData_NoRcpt(s) ==
  IF s.From = Nil THEN <<FALSE, "Need mail before DATA">> ELSE <<TRUE, "">>

\* canReceiveData, were it to look at the recipients first
canReceiveData_RcptFirst(s) ==
  IF Len(s.To) = 0 THEN <<FALSE, "Need RCPT before DATA">>
  ELSE IF s.From = Nil THEN <<FALSE, "Need mail before DATA">>
  ELSE <<TRUE, "">>

canReceiveData(s) ==
  IF s.From = Nil THEN <<FALSE, "Need mail before DATA">>
  ELSE IF Len(s.To) = 0 THEN <<FALSE, "Need RCPT before DATA">>
  ELSE <<TRUE, "">>

VARIABLES
  TlsConfig,         \* Mta.TlsConfig # nil
  shutDownC,         \* "open" / "closed"
  quitC,             \* "open" / "closed"
  wg,                \* Mta.wg counter
  globalCounter,     \* uint32, as <<high, low>>
  globalCounterLock, \* 0 = unlocked, else the session holding the mutex
  stopPc,            \* Mta.Stop: "idle", "sleep", "done"
  lasPc,             \* ListenAndServe: "start", "accept", "wait", "returned"
  lasErr,            \* value ListenAndServe returns: "nil" / "err"
  ln,                \* listener: "none", "open", "closed"
  closerPc,          \* goroutine of mta.go:189: "none", "wait", "done"
  crashed,           \* an unrecovered panic has ended the process
  conns,             \* connections the clients will open (fixed by Init)
  lines,             \* per connection: lines its client will send (fixed by Init)
  accepted,          \* connections accepted so far (they are 1..accepted)
  reads,             \* per connection: lines its client has sent so far
  pc,                \* per connection: position of its serve goroutine
  state,             \* per connection: the State of HandleClient
  quit,              \* per connection: local quit of HandleClient
  c,                 \* per connection: c, the command read last
  err,               \* per connection: err shared by HandleClient and helper
  helpers,           \* per connection: the live helper goroutines of nextCmd
  chunks,            \* per connection: ErrLtl results of ReadAll in this DATA
  yielded,           \* per connection: bytes the current body reader yielded
  sent,              \* per connection: replies written since the session last
                     \* started a read or, while it waited, a line was read
  first,             \* per connection: the first reply written on it
  calls,             \* per connection: HandleMail calls for the current DATA
  closed,            \* per connection: times the connection was closed
  msgs,              \* per connection: DATA commands accepted so far
  arg,               \* per connection: the State a running HandleMail was given
  prev,              \* per connection: the reset the previous command ended
                     \* with ("none" if it ended with none)
  tlsErr             \* per connection: err of the proto.StartTls call of the
                     \* current command ("none": not called)

envVars == <<conns, lines>>
supVars == <<TlsConfig, shutDownC, quitC, wg, stopPc, lasPc, lasErr, ln,
             closerPc, accepted, envVars>>
genVars == <<globalCounter, globalCounterLock>>
sessVars == <<pc, state, quit, c, err, helpers, chunks, yielded, sent, first,
              calls, closed, msgs, arg, reads, prev, tlsErr>>
vars == <<supVars, genVars, sessVars, crashed>>

\* New(c, h) has run; nothing listens yet; no client has connected.
Start ==
  /\ TlsConfig \in BOOLEAN
  /\ shutDownC = "open"
  /\ quitC = "open"
  /\ wg = 0
  /\ globalCounterLock = 0
  /\ stopPc = "idle"
  /\ lasPc = "start"
  /\ lasErr = "nil"
  /\ ln = "none"
  /\ closerPc = "none"
  /\ crashed = FALSE
  /\ accepted = 0
  /\ reads = [s \in Conns |-> 0]
  /\ pc = [s \in Conns |-> "idle"]
  /\ state = [s \in Conns |-> ZeroState]
  /\ quit = [s \in Conns |-> FALSE]
  /\ c = [s \in Conns |-> NoCmd]
  /\ err = [s \in Conns |-> "nil"]
  /\ helpers = [s \in Conns |-> <<>>]
  /\ chunks = [s \in Conns |-> 0]
  /\ yielded = [s \in Conns |-> <<>>]
  /\ sent = [s \in Conns |-> <<>>]
  /\ first = [s \in Conns |-> NoAnswer]
  /\ calls = [s \in Conns |-> 0]
  /\ closed = [s \in Conns |-> 0]
  /\ msgs = [s \in Conns |-> 0]
  /\ arg = [s \in Conns |-> ZeroState]
  /\ prev = [s \in Conns |-> "none"]
  /\ tlsErr = [s \in Conns |-> "none"]

\* one client, which sends up to MaxCmds lines
Init ==
  /\ Start
  /\ globalCounter = <<0, 0>>
  /\ conns = 1
  /\ lines = [s \in Conns |-> IF s = 1 THEN MaxCmds ELSE 0]

\* the largest uint32, 2^32 - 1
MaxUint32 == <<Half - 1, Half - 1>>

\* up to MaxConn clients that connect and then stay silent or go away.  These
\* runs are for the interplay of the sessions with each other and with the
\* supervisor; what a session does with commands is the business of the
\* one-connection runs.  globalCounter belongs to the process, not to the Mta:
\* the sessions served before have left it anywhere, here at 0 or one step
\* from wrapping.
InitSup ==
  /\ Start
  /\ globalCounter \in {<<0, 0>>, MaxUint32}
  /\ conns = MaxConn
  /\ lines = [s \in Conns |-> 0]

\* one client, which sends up to DataCmds lines
InitData ==
  /\ Start
  /\ globalCounter = <<0, 0>>
  /\ conns = 1
  /\ lines = [s \in Conns |-> IF s = 1 THEN DataCmds ELSE 0]

\* ----------------------------------------------------------------- helpers
\* proto.Send of the answers as (in order) on connection s
Send(s, as) ==
  /\ sent' = [sent EXCEPT ![s] = @ \o as]
  /\ first' = [first EXCEPT ![s] = IF @ = NoAnswer THEN as[1] ELSE @]

\* Mta.hasTls
hasTls == TlsConfig

\* a goroutine that has returned no longer exists
RemoveAt(q, i) == SubSeq(q, 1, i - 1) \o SubSeq(q, i + 1, Len(q))

\* -------------------------------------------------------------- Mta.Stop
\* close(s.shutDownC), then the 10 second sleep starts
StopShutdown ==
  /\ ~crashed
  /\ stopPc = "idle"
  /\ shutDownC' = "closed"
  /\ stopPc' = "sleep"
  /\ UNCHANGED <<TlsConfig, quitC, wg, lasPc, lasErr, ln, closerPc, accepted,
                 envVars, genVars, sessVars, crashed>>

\* the sleep is over: close(s.quitC); closing the channel wakes every session
\* blocked in its select, with the quit case chosen
StopQuit ==
  /\ ~crashed
  /\ stopPc = "sleep"
  /\ quitC' = "closed"
  /\ stopPc' = "done"
  /\ pc' = [s \in Conns |-> IF pc[s] = "parked" THEN "woken" ELSE pc[s]]
  /\ UNCHANGED <<envVars, TlsConfig, shutDownC, wg, lasPc, lasErr, ln,
                 closerPc, accepted, genVars, state, quit, c, err, helpers,
                 chunks, yielded, sent, first, calls, closed, msgs, arg,
                 reads, prev, tlsErr, crashed>>

\* ------------------------------------------- DefaultMta.ListenAndServe
\* net.Listen succeeds; the closer goroutine is started; listen(ln) begins
Listen ==
  /\ ~crashed
  /\ lasPc = "start"
  /\ ln' = "open"
  /\ closerPc' = "wait"
  /\ lasPc' = "accept"
  /\ UNCHANGED <<envVars, TlsConfig, shutDownC, quitC, wg, stopPc, lasErr, accepted,
                 genVars, sessVars, crashed>>

\* net.Listen fails: return err
ListenFail ==
  /\ ~crashed
  /\ lasPc = "start"
  /\ lasErr' = "err"
  /\ lasPc' = "returned"
  /\ UNCHANGED <<envVars, TlsConfig, shutDownC, quitC, wg, stopPc, ln, closerPc,
                 accepted, genVars, sessVars, crashed>>

\* go func() { _, ok := <-s.mta.shutDownC; if !ok { ln.Close() } }()
Closer ==
  /\ ~crashed
  /\ closerPc = "wait"
  /\ shutDownC = "closed"
  /\ ln' = "closed"
  /\ closerPc' = "done"
  /\ UNCHANGED <<envVars, TlsConfig, shutDownC, quitC, wg, stopPc, lasPc, lasErr,
                 accepted, genVars, sessVars, crashed>>

\* ln.Accept returns a connection whatever became of the listener
Accept_ListenerClosed ==
  /\ ~crashed
  /\ lasPc = "accept"
  /\ accepted < conns
  /\ accepted' = accepted + 1
  /\ wg' = wg + 1
  /\ pc' = [pc EXCEPT ![accepted + 1] = "serve"]
  /\ UNCHANGED <<envVars, TlsConfig, shutDownC, quitC, stopPc, lasPc, lasErr,
                 ln, closerPc, genVars, state, quit, c, err, helpers, chunks,
                 yielded, sent, first, calls, closed, msgs, arg, reads, prev,
                 tlsErr, crashed>>

\* ln.Accept returns a connection: wg.Add(1); go s.serve(c)
Accept ==
  /\ ~crashed
  /\ lasPc = "accept"
  /\ ln = "open"
  /\ accepted < conns
  /\ accepted' = accepted + 1
  /\ wg' = wg + 1
  /\ pc' = [pc EXCEPT ![accepted + 1] = "serve"]
  /\ UNCHANGED <<envVars, TlsConfig, shutDownC, quitC, stopPc, lasPc, lasErr,
                 ln, closerPc, genVars, state, quit, c, err, helpers, chunks,
                 yielded, sent, first, calls, closed, msgs, arg, reads, prev,
                 tlsErr, crashed>>

\* ln.Accept returns a temporary net.Error: log and continue
AcceptTemporary ==
  /\ ~crashed
  /\ lasPc = "accept"
  /\ ln = "open"
  /\ UNCHANGED vars

\* ln.Accept fails because the listener was closed: return nil (defer ln.Close)
AcceptClosed ==
  /\ ~crashed
  /\ lasPc = "accept"
  /\ ln = "closed"
  /\ lasPc' = "wait"
  /\ UNCHANGED <<envVars, TlsConfig, shutDownC, quitC, wg, stopPc, lasErr, ln, closerPc,
                 accepted, genVars, sessVars, crashed>>

\* ln.Accept fails with any other error: return err (defer ln.Close)
AcceptFatal ==
  /\ ~crashed
  /\ lasPc = "accept"
  /\ ln = "open"
  /\ lasErr' = "err"
  /\ ln' = "closed"
  /\ lasPc' = "wait"
  /\ UNCHANGED <<TlsConfig, shutDownC, quitC, wg, stopPc, closerPc, accepted,
                 envVars, genVars, sessVars, crashed>>

\* ListenAndServe returns without waiting for the sessions
Wait_NoBarrier ==
  /\ ~crashed
  /\ lasPc = "wait"
  /\ lasPc' = "returned"
  /\ UNCHANGED <<envVars, TlsConfig, shutDownC, quitC, wg, stopPc, lasErr, ln, closerPc,
                 accepted, genVars, sessVars, crashed>>

\* s.mta.wg.Wait() returns; ListenAndServe returns err
Wait ==
  /\ ~crashed
  /\ lasPc = "wait"
  /\ wg = 0
  /\ lasPc' = "returned"
  /\ UNCHANGED <<envVars, TlsConfig, shutDownC, quitC, wg, stopPc, lasErr, ln, closerPc,
                 accepted, genVars, sessVars, crashed>>

\* ------------------------------------------------------ DefaultMta.serve
\* NewMtaProtocol(c) # nil; HandleClient starts: state := State{}; state.reset()
Serve(s) ==
  /\ ~crashed
  /\ pc[s] = "serve"
  /\ state' = [state EXCEPT ![s] = reset(ZeroState)]
  /\ pc' = [pc EXCEPT ![s] = "genLock"]
  /\ UNCHANGED <<supVars, genVars, quit, c, err, helpers, chunks, yielded,
                 sent, first, calls, closed, msgs, arg, reads, prev, tlsErr,
                 crashed>>

\* NewMtaProtocol(c) = nil: c.Close(); return
ServeNoProto(s) ==
  /\ ~crashed
  /\ pc[s] = "serve"
  /\ closed' = [closed EXCEPT ![s] = @ + 1]
  /\ pc' = [pc EXCEPT ![s] = "exit"]
  /\ UNCHANGED <<msgs, supVars, genVars, state, quit, c, err, helpers, chunks,
                 yielded, sent, first, calls, arg, reads, prev, tlsErr,
                 crashed>>

\* defer s.mta.wg.Done()
ServeDone(s) ==
  /\ ~crashed
  /\ pc[s] = "exit"
  /\ wg' = wg - 1
  /\ pc' = [pc EXCEPT ![s] = "done"]
  /\ UNCHANGED <<envVars, TlsConfig, shutDownC, quitC, stopPc, lasPc, lasErr,
                 ln, closerPc, accepted, genVars, state, quit, c, err,
                 helpers, chunks, yielded, sent, first, calls, closed, msgs,
                 arg, reads, prev, tlsErr, crashed>>

\* ---------------------------------------------------- generateSessionId
\* the lock is taken although another session holds it
GenLock_NoMutex(s) ==
  /\ ~crashed
  /\ pc[s] = "genLock"
  /\ globalCounterLock' = s
  /\ pc' = [pc EXCEPT ![s] = "genInc"]
  /\ UNCHANGED <<supVars, globalCounter, state, quit, c, err, helpers, chunks,
                 yielded, sent, first, calls, closed, msgs, arg, reads, prev,
                 tlsErr, crashed>>

\* globalCounterLock.Lock()
GenLock(s) ==
  /\ ~crashed
  /\ pc[s] = "genLock"
  /\ globalCounterLock = 0
  /\ globalCounterLock' = s
  /\ pc' = [pc EXCEPT ![s] = "genInc"]
  /\ UNCHANGED <<supVars, globalCounter, state, quit, c, err, helpers, chunks,
                 yielded, sent, first, calls, closed, msgs, arg, reads, prev,
                 tlsErr, crashed>>

\* globalCounter++
GenInc(s) ==
  /\ ~crashed
  /\ pc[s] = "genInc"
  /\ globalCounter' = Inc32(globalCounter)
  /\ pc' = [pc EXCEPT ![s] = "genRet"]
  /\ UNCHANGED <<supVars, globalCounterLock, state, quit, c, err, helpers,
                 chunks, yielded, sent, first, calls, closed, msgs, arg,
                 reads, prev, tlsErr, crashed>>

\* return Id{Counter: globalCounter}; deferred Unlock; state.SessionId = ...
\* (Id.Timestamp, the wall clock, is not modelled)
GenRet(s) ==
  /\ ~crashed
  /\ pc[s] = "genRet"
  /\ state' = [state EXCEPT ![s].SessionId = globalCounter]
  /\ globalCounterLock' = 0
  /\ pc' = [pc EXCEPT ![s] = "greet"]
  /\ UNCHANGED <<supVars, globalCounter, quit, c, err, helpers, chunks,
                 yielded, sent, first, calls, closed, msgs, arg, reads, prev,
                 tlsErr, crashed>>

\* ------------------------------------------------------ Mta.HandleClient
\* state.Ip = ip; welcome message; quit := false; cmdC := make(chan bool)
Greet(s) ==
  /\ ~crashed
  /\ pc[s] = "greet"
  /\ state' = [state EXCEPT ![s].Ip = s]
  /\ Send(s, <<Answer(Ready, Hostname \o " Service Ready")>>)
  /\ quit' = [quit EXCEPT ![s] = FALSE]
  /\ pc' = [pc EXCEPT ![s] = "next"]
  /\ UNCHANGED <<supVars, genVars, c, err, helpers, chunks, yielded, calls,
                 closed, msgs, arg, reads, prev, tlsErr, crashed>>

\* the place where the command cmd, answered with the replies as and leaving
\* the State st, called reset ("none" if it did not end with a reset)
ResetSite(cmd, as, st) ==
  IF cmd.kind \in {"EHLO", "RSET"} THEN cmd.kind
  ELSE IF cmd.kind = "DATA" /\ as # <<>>
            /\ as[Len(as)] = Answer(Ok, "Mail delivered") THEN "DATA"
  ELSE IF cmd.kind = "DATA" /\ as # <<>>
            /\ as[Len(as)] = Answer(SyntaxError, "Could not parse mail data")
       THEN "INCOMPLETE"
  ELSE IF cmd.kind = "STARTTLS" /\ st.Secure
            /\ as = <<Answer(Ready, "Ready for TLS handshake")>> THEN "STARTTLS"
  ELSE "none"

\* nextCmd, first half: go func() {...}() starts a helper reader.
\* c is not read again before a helper overwrites it: the model forgets it
\* here, together with the replies written for it.
NextCmd(s) ==
  /\ ~crashed
  /\ pc[s] = "next"
  /\ helpers' = [helpers EXCEPT ![s] = Append(@, [pc |-> "getcmd", val |-> FALSE])]
  /\ pc' = [pc EXCEPT ![s] = "select"]
  /\ sent' = [sent EXCEPT ![s] = <<>>]
  /\ c' = [c EXCEPT ![s] = NoCmd]
  /\ prev' = [prev EXCEPT ![s] = ResetSite(c[s], sent[s], state[s])]
  /\ tlsErr' = [tlsErr EXCEPT ![s] = "none"]
  /\ UNCHANGED <<supVars, genVars, state, quit, err, chunks, yielded, first,
                 calls, closed, msgs, arg, reads, crashed>>

\* the session is in the select of nextCmd and has not chosen a case
Waiting(s) == pc[s] \in {"select", "parked"}

\* helper: proto.GetCmd() returns one of the commands cmds; the helper goes to
\* cmdC <- false
GetCmd(s, h, cmds) ==
  /\ ~crashed
  /\ h \in DOMAIN helpers[s]
  /\ helpers[s][h].pc = "getcmd"
  /\ closed[s] = 0
  /\ reads[s] < lines[s]
  /\ \E cmd \in cmds : c' = [c EXCEPT ![s] = cmd]
  /\ err' = [err EXCEPT ![s] = "nil"]
  /\ helpers' = [helpers EXCEPT ![s][h] = [pc |-> "send", val |-> FALSE]]
  /\ reads' = [reads EXCEPT ![s] = @ + 1]
  /\ sent' = [sent EXCEPT ![s] = IF Waiting(s) THEN <<>> ELSE @]
  /\ UNCHANGED <<supVars, genVars, pc, state, quit, chunks, yielded, first,
                 calls, closed, msgs, arg, prev, tlsErr, crashed>>

\* helper: proto.GetCmd() returns a command
HelperGetCmd(s, h) == GetCmd(s, h, Cmds)

\* helper: proto.GetCmd() returns a command of a client that sends nothing
\* but MAIL, RCPT and DATA
HelperGetEnvelope(s, h) == GetCmd(s, h, EnvelopeCmds)

\* helper: proto.GetCmd() returns smtp.ErrLtl
HelperGetLtl(s, h) ==
  /\ ~crashed
  /\ h \in DOMAIN helpers[s]
  /\ helpers[s][h].pc = "getcmd"
  /\ closed[s] = 0
  /\ reads[s] < lines[s]
  /\ c' = [c EXCEPT ![s] = NoCmd]
  /\ err' = [err EXCEPT ![s] = "ErrLtl"]
  /\ helpers' = [helpers EXCEPT ![s][h] = [pc |-> "ltl", val |-> FALSE]]
  /\ reads' = [reads EXCEPT ![s] = @ + 1]
  /\ sent' = [sent EXCEPT ![s] = IF Waiting(s) THEN <<>> ELSE @]
  /\ UNCHANGED <<supVars, genVars, pc, state, quit, chunks, yielded, first,
                 calls, closed, msgs, arg, prev, tlsErr, crashed>>

\* helper: read again without a reply
HelperSendLtl_Silent(s, h) ==
  /\ ~crashed
  /\ h \in DOMAIN helpers[s]
  /\ helpers[s][h].pc = "ltl"
  /\ helpers' = [helpers EXCEPT ![s][h] = [pc |-> "getcmd", val |-> FALSE]]
  /\ UNCHANGED <<supVars, genVars, pc, state, quit, c, err, chunks, yielded,
                 sent, first, calls, closed, msgs, arg, reads, prev, tlsErr,
                 crashed>>

\* helper: proto.Send 500 "Line too long." and read again
HelperSendLtl(s, h) ==
  /\ ~crashed
  /\ h \in DOMAIN helpers[s]
  /\ helpers[s][h].pc = "ltl"
  /\ Send(s, <<Answer(SyntaxError, "Line too long.")>>)
  /\ helpers' = [helpers EXCEPT ![s][h] = [pc |-> "getcmd", val |-> FALSE]]
  /\ UNCHANGED <<supVars, genVars, pc, state, quit, c, err, chunks, yielded,
                 calls, closed, msgs, arg, reads, prev, tlsErr, crashed>>

\* helper: the failed read is posted as false
HelperGetErr_PostsFalse(s, h) ==
  /\ ~crashed
  /\ h \in DOMAIN helpers[s]
  /\ helpers[s][h].pc = "getcmd"
  /\ c' = [c EXCEPT ![s] = NoCmd]
  /\ err' = [err EXCEPT ![s] = "error"]
  /\ helpers' = [helpers EXCEPT ![s][h] = [pc |-> "send", val |-> FALSE]]
  /\ UNCHANGED <<supVars, genVars, pc, state, quit, chunks, yielded, sent,
                 first, calls, closed, msgs, arg, reads, prev, tlsErr, crashed>>

\* helper: proto.GetCmd() fails with another error (the client went away, or
\* the connection was closed); the helper goes to cmdC <- true
HelperGetErr(s, h) ==
  /\ ~crashed
  /\ h \in DOMAIN helpers[s]
  /\ helpers[s][h].pc = "getcmd"
  /\ c' = [c EXCEPT ![s] = NoCmd]
  /\ err' = [err EXCEPT ![s] = "error"]
  /\ helpers' = [helpers EXCEPT ![s][h] = [pc |-> "send", val |-> TRUE]]
  /\ UNCHANGED <<supVars, genVars, pc, state, quit, chunks, yielded, sent,
                 first, calls, closed, msgs, arg, reads, prev, tlsErr,
                 crashed>>

\* the helper reads on after its value was received
Receive_HelperLives(s, h) ==
  /\ quit' = [quit EXCEPT ![s] = helpers[s][h].val]
  /\ helpers' = [helpers EXCEPT ![s][h].pc = "getcmd"]
  /\ pc' = [pc EXCEPT ![s] = IF helpers[s][h].val THEN "close" ELSE "dispatch"]
  /\ UNCHANGED <<supVars, genVars, state, c, err, chunks, yielded, sent,
                 first, calls, closed, msgs, arg, reads, prev, tlsErr,
                 crashed>>

\* q := <-cmdC receives the value of helper h, which returns; quit = q, and
\* the loop runs while quit == false
Receive(s, h) ==
  /\ quit' = [quit EXCEPT ![s] = helpers[s][h].val]
  /\ helpers' = [helpers EXCEPT ![s] = RemoveAt(@, h)]
  /\ pc' = [pc EXCEPT ![s] = IF helpers[s][h].val THEN "close" ELSE "dispatch"]
  /\ UNCHANGED <<supVars, genVars, state, c, err, chunks, yielded, sent,
                 first, calls, closed, msgs, arg, reads, prev, tlsErr,
                 crashed>>

\* helper: cmdC <- v finds the session blocked in its select and hands v over
HelperHandoff(s, h) ==
  /\ ~crashed
  /\ h \in DOMAIN helpers[s]
  /\ helpers[s][h].pc = "send"
  /\ pc[s] = "parked"
  /\ Receive(s, h)

\* helper: cmdC <- v finds no receiver and blocks (cmdC is unbuffered)
HelperBlock(s, h) ==
  /\ ~crashed
  /\ h \in DOMAIN helpers[s]
  /\ helpers[s][h].pc = "send"
  /\ pc[s] # "parked"
  /\ helpers' = [helpers EXCEPT ![s][h].pc = "blocked"]
  /\ UNCHANGED <<supVars, genVars, pc, state, quit, c, err, chunks, yielded,
                 sent, first, calls, closed, msgs, arg, reads, prev, tlsErr,
                 crashed>>

\* nextCmd, select: case q := <-cmdC is ready (a helper is blocked in its
\* send) and is the case chosen
SelectCmd(s, h) ==
  /\ ~crashed
  /\ pc[s] = "select"
  /\ h \in DOMAIN helpers[s]
  /\ helpers[s][h].pc = "blocked"
  /\ Receive(s, h)

\* nextCmd, select: no case is ready, the session blocks
SelectPark(s) ==
  /\ ~crashed
  /\ pc[s] = "select"
  /\ quitC = "open"
  /\ \A h \in DOMAIN helpers[s] : helpers[s][h].pc # "blocked"
  /\ pc' = [pc EXCEPT ![s] = "parked"]
  /\ UNCHANGED <<supVars, genVars, state, quit, c, err, helpers, chunks,
                 yielded, sent, first, calls, closed, msgs, arg, reads, prev,
                 tlsErr, crashed>>

\* the quit case returns true without a reply
SelectQuit_NoReply(s) ==
  /\ ~crashed
  /\ \/ pc[s] = "select" /\ quitC = "closed"
     \/ pc[s] = "woken"
  /\ quit' = [quit EXCEPT ![s] = TRUE]
  /\ pc' = [pc EXCEPT ![s] = "close"]
  /\ UNCHANGED <<supVars, genVars, state, c, err, helpers, chunks, yielded,
                 sent, first, calls, closed, msgs, arg, reads, prev, tlsErr,
                 crashed>>

\* nextCmd, select: case <-s.quitC is ready (quitC is closed) and is the case
\* chosen, or was chosen when the close woke the session: send 421, return true
SelectQuit(s) ==
  /\ ~crashed
  /\ \/ pc[s] = "select" /\ quitC = "closed"
     \/ pc[s] = "woken"
  /\ Send(s, <<Answer(ShuttingDown, "Server is going down.")>>)
  /\ quit' = [quit EXCEPT ![s] = TRUE]
  /\ pc' = [pc EXCEPT ![s] = "close"]
  /\ UNCHANGED <<supVars, genVars, state, c, err, helpers, chunks, yielded,
                 calls, closed, msgs, arg, reads, prev, tlsErr, crashed>>

\* proto.Close() after the loop; HandleClient returns
Close(s) ==
  /\ ~crashed
  /\ pc[s] = "close"
  /\ closed' = [closed EXCEPT ![s] = @ + 1]
  /\ pc' = [pc EXCEPT ![s] = "exit"]
  /\ UNCHANGED <<msgs, supVars, genVars, state, quit, c, err, helpers, chunks,
                 yielded, sent, first, calls, arg, reads, prev, tlsErr,
                 crashed>>

\* ------------------------------------- the dispatch switch of HandleClient
\* What every arm that neither blocks nor quits leaves alone, and where it
\* goes: if quit { break } is not taken and quit = nextCmd() comes next
ArmDone(s) ==
  /\ pc' = [pc EXCEPT ![s] = "next"]
  /\ UNCHANGED <<supVars, genVars, quit, c, err, helpers, chunks, yielded,
                 calls, closed, msgs, arg, reads, prev, tlsErr, crashed>>

Dispatching(s, kind) ==
  /\ ~crashed
  /\ pc[s] = "dispatch"
  /\ c[s].kind = kind

\* case smtp.HeloCmd
HeloCmd(s) ==
  /\ Dispatching(s, "HELO")
  /\ Send(s, <<Answer(Ok, Hostname)>>)
  /\ UNCHANGED state
  /\ ArmDone(s)

\* the lines of the EHLO answer
EhloMessages(st) ==
  <<Hostname, "8BITMIME">>
    \o (IF hasTls /\ ~st.Secure THEN <<"STARTTLS">> ELSE <<>>)
    \o <<"OK">>

\* EHLO advertises STARTTLS whenever there is a TlsConfig, secure or not
EhloCmd_AdvertisesSecure(s) ==
  /\ Dispatching(s, "EHLO")
  /\ state' = [state EXCEPT ![s] = reset(@)]
  /\ Send(s, <<MultiAnswer(Ok, EhloMessages([state[s] EXCEPT !.Secure = FALSE]))>>)
  /\ ArmDone(s)

\* case smtp.EhloCmd
EhloCmd(s) ==
  /\ Dispatching(s, "EHLO")
  /\ state' = [state EXCEPT ![s] = reset(@)]
  /\ Send(s, <<MultiAnswer(Ok, EhloMessages(reset(state[s])))>>)
  /\ ArmDone(s)

\* QUIT is answered and the loop goes on
QuitCmd_KeepsLooping(s) ==
  /\ Dispatching(s, "QUIT")
  /\ Send(s, <<Answer(Closing, "Bye!")>>)
  /\ UNCHANGED state
  /\ ArmDone(s)

\* case smtp.QuitCmd: quit = true, so the loop is left
QuitCmd(s) ==
  /\ Dispatching(s, "QUIT")
  /\ Send(s, <<Answer(Closing, "Bye!")>>)
  /\ quit' = [quit EXCEPT ![s] = TRUE]
  /\ pc' = [pc EXCEPT ![s] = "close"]
  /\ UNCHANGED <<supVars, genVars, state, c, err, helpers, chunks, yielded,
                 calls, closed, msgs, arg, reads, prev, tlsErr, crashed>>

\* the 250 message of an accepted MAIL
MailMessage(eight) == IF eight THEN "Sender and 8BITMIME ok" ELSE "Sender ok"

\* case smtp.MailCmd
MailCmd(s) ==
  /\ Dispatching(s, "MAIL")
  /\ IF ~canReceiveMail(state[s])[1]
       THEN /\ Send(s, <<Answer(BadSequence, canReceiveMail(state[s])[2])>>)
            /\ UNCHANGED state
       ELSE /\ state' = [state EXCEPT ![s].From = c[s].addr,
                                      ![s].EightBitMIME = c[s].eight]
            /\ Send(s, <<Answer(Ok, MailMessage(c[s].eight))>>)
  /\ ArmDone(s)

\* case smtp.RcptCmd
RcptCmd(s) ==
  /\ Dispatching(s, "RCPT")
  /\ IF ~canReceiveRcpt(state[s])[1]
       THEN /\ Send(s, <<Answer(BadSequence, canReceiveRcpt(state[s])[2])>>)
            /\ UNCHANGED state
       ELSE /\ state' = [state EXCEPT ![s].To = Append(@, c[s].addr)]
            /\ Send(s, <<Answer(Ok, "OK")>>)
  /\ ArmDone(s)

\* the 354 message of an accepted DATA
DataMessage(eight) ==
  IF eight THEN "Start 8BITMIME mail input; end with <CRLF>.<CRLF>"
  ELSE "Start mail input; end with <CRLF>.<CRLF>"

\* case smtp.DataCmd, up to the first read of the body (cmd.R is a fresh reader)
DataCmd(s) ==
  /\ Dispatching(s, "DATA")
  /\ UNCHANGED <<supVars, genVars, state, quit, c, err, helpers, calls,
                 closed, arg, reads, prev, tlsErr, crashed>>
  /\ IF ~canReceiveData(state[s])[1]
       THEN /\ Send(s, <<Answer(BadSequence, canReceiveData(state[s])[2])>>)
            /\ pc' = [pc EXCEPT ![s] = "next"]
            /\ UNCHANGED <<chunks, yielded, msgs>>
       ELSE /\ Send(s, <<Answer(StartData, DataMessage(state[s].EightBitMIME))>>)
            /\ pc' = [pc EXCEPT ![s] = "tryAgain"]
            /\ msgs' = [msgs EXCEPT ![s] = @ + 1]
            /\ chunks' = [chunks EXCEPT ![s] = 0]
            /\ yielded' = [yielded EXCEPT ![s] = <<>>]

\* tryAgain: ioutil.ReadAll(&cmd.R) returns tmpData and smtp.ErrLtl:
\* append, send 500, goto tryAgain
ReadAllLtl(s) ==
  /\ ~crashed
  /\ pc[s] = "tryAgain"
  /\ chunks[s] < MaxLtl
  /\ \E tmpData \in Chunk :
       /\ state' = [state EXCEPT ![s].Data = @ \o tmpData]
       /\ yielded' = [yielded EXCEPT ![s] = @ \o tmpData]
  /\ chunks' = [chunks EXCEPT ![s] = @ + 1]
  /\ Send(s, <<Answer(SyntaxError, "Line too long")>>)
  /\ UNCHANGED <<supVars, genVars, pc, quit, c, err, helpers, calls, closed,
                 msgs, arg, reads, prev, tlsErr, crashed>>

\* the incomplete body is answered and the envelope kept
ReadAllIncomplete_NoReset(s) ==
  /\ ~crashed
  /\ pc[s] = "tryAgain"
  /\ \E tmpData \in Chunk :
       state' = [state EXCEPT ![s].Data = @ \o tmpData]
  /\ Send(s, <<Answer(SyntaxError, "Could not parse mail data")>>)
  /\ pc' = [pc EXCEPT ![s] = "next"]
  /\ chunks' = [chunks EXCEPT ![s] = 0]
  /\ yielded' = [yielded EXCEPT ![s] = <<>>]
  /\ UNCHANGED <<supVars, genVars, quit, c, err, helpers, calls, closed, msgs,
                 arg, reads, prev, tlsErr, crashed>>

\* tryAgain: ReadAll returns smtp.ErrIncomplete: send 500, reset, break
ReadAllIncomplete(s) ==
  /\ ~crashed
  /\ pc[s] = "tryAgain"
  /\ \E tmpData \in Chunk :
       state' = [state EXCEPT ![s] = reset([@ EXCEPT !.Data = @ \o tmpData])]
  /\ Send(s, <<Answer(SyntaxError, "Could not parse mail data")>>)
  /\ pc' = [pc EXCEPT ![s] = "next"]
  /\ chunks' = [chunks EXCEPT ![s] = 0]
  /\ yielded' = [yielded EXCEPT ![s] = <<>>]
  /\ UNCHANGED <<supVars, genVars, quit, c, err, helpers, calls, closed, msgs,
                 arg, reads, prev, tlsErr, crashed>>

\* a panic in the serve goroutine: its deferred wg.Done() runs while the stack
\* unwinds, nothing recovers, and the process ends
Panic(s) ==
  /\ crashed' = TRUE
  /\ wg' = wg - 1
  /\ pc' = [pc EXCEPT ![s] = "panicked"]

\* tryAgain: ReadAll returns any other error: log ... Panic(err)
ReadAllPanic(s) ==
  /\ ~crashed
  /\ pc[s] = "tryAgain"
  /\ \E tmpData \in Chunk :
       /\ state' = [state EXCEPT ![s].Data = @ \o tmpData]
       /\ yielded' = [yielded EXCEPT ![s] = @ \o tmpData]
  /\ Panic(s)
  /\ UNCHANGED <<envVars, TlsConfig, shutDownC, quitC, stopPc, lasPc, lasErr,
                 ln, closerPc, accepted, genVars, quit, c, err, helpers,
                 chunks, sent, first, calls, closed, msgs, arg, reads, prev,
                 tlsErr>>

\* the last bytes of the body are put in front of state.Data
ReadAllDone_Prepends(s) ==
  /\ ~crashed
  /\ pc[s] = "tryAgain"
  /\ \E tmpData \in Chunk :
       /\ state' = [state EXCEPT ![s].Data = tmpData \o @]
       /\ yielded' = [yielded EXCEPT ![s] = @ \o tmpData]
  /\ pc' = [pc EXCEPT ![s] = "handle"]
  /\ UNCHANGED <<supVars, genVars, quit, c, err, helpers, chunks, sent, first,
                 calls, closed, msgs, arg, reads, prev, tlsErr, crashed>>

\* the body is complete and the handler is passed over
ReadAllDone_SkipsHandler(s) ==
  /\ ~crashed
  /\ pc[s] = "tryAgain"
  /\ \E tmpData \in Chunk :
       /\ state' = [state EXCEPT ![s].Data = @ \o tmpData]
       /\ yielded' = [yielded EXCEPT ![s] = @ \o tmpData]
  /\ pc' = [pc EXCEPT ![s] = "inHandler"]
  /\ UNCHANGED <<supVars, genVars, quit, c, err, helpers, chunks, sent, first,
                 calls, closed, msgs, arg, reads, prev, tlsErr, crashed>>

\* tryAgain: ReadAll returns the rest of the body and no error
ReadAllDone(s) ==
  /\ ~crashed
  /\ pc[s] = "tryAgain"
  /\ \E tmpData \in Chunk :
       /\ state' = [state EXCEPT ![s].Data = @ \o tmpData]
       /\ yielded' = [yielded EXCEPT ![s] = @ \o tmpData]
  /\ pc' = [pc EXCEPT ![s] = "handle"]
  /\ UNCHANGED <<supVars, genVars, quit, c, err, helpers, chunks, sent, first,
                 calls, closed, msgs, arg, reads, prev, tlsErr, crashed>>

\* s.MailHandler.HandleMail(&state) is called
HandleMail(s) ==
  /\ ~crashed
  /\ pc[s] = "handle"
  /\ arg' = [arg EXCEPT ![s] = state[s]]
  /\ calls' = [calls EXCEPT ![s] = @ + 1]
  /\ pc' = [pc EXCEPT ![s] = "inHandler"]
  /\ UNCHANGED <<supVars, genVars, state, quit, c, err, helpers, chunks,
                 yielded, sent, first, closed, msgs, reads, prev, tlsErr,
                 crashed>>

\* HandleMail panics
HandleMailPanic(s) ==
  /\ ~crashed
  /\ pc[s] = "inHandler"
  /\ Panic(s)
  /\ UNCHANGED <<envVars, TlsConfig, shutDownC, quitC, stopPc, lasPc, lasErr,
                 ln, closerPc, accepted, genVars, state, quit, c, err,
                 helpers, chunks, yielded, sent, first, calls, closed, msgs,
                 arg, reads, prev, tlsErr>>

\* MailDelivered, were the reset after the handler missing
MailDelivered_NoReset(s) ==
  /\ ~crashed
  /\ pc[s] = "inHandler"
  /\ Send(s, <<Answer(Ok, "Mail delivered")>>)
  /\ arg' = [arg EXCEPT ![s] = ZeroState]
  /\ calls' = [calls EXCEPT ![s] = 0]
  /\ chunks' = [chunks EXCEPT ![s] = 0]
  /\ yielded' = [yielded EXCEPT ![s] = <<>>]
  /\ pc' = [pc EXCEPT ![s] = "next"]
  /\ UNCHANGED <<supVars, genVars, state, quit, c, err, helpers, closed, msgs,
                 reads, prev, tlsErr, crashed>>

\* HandleMail returns: send 250 "Mail delivered", state.reset()
MailDelivered(s) ==
  /\ ~crashed
  /\ pc[s] = "inHandler"
  /\ Send(s, <<Answer(Ok, "Mail delivered")>>)
  /\ state' = [state EXCEPT ![s] = reset(@)]
  /\ arg' = [arg EXCEPT ![s] = ZeroState]
  /\ calls' = [calls EXCEPT ![s] = 0]
  /\ chunks' = [chunks EXCEPT ![s] = 0]
  /\ yielded' = [yielded EXCEPT ![s] = <<>>]
  /\ pc' = [pc EXCEPT ![s] = "next"]
  /\ UNCHANGED <<supVars, genVars, quit, c, err, helpers, closed, msgs, reads,
                 prev, tlsErr, crashed>>

\* case smtp.RsetCmd
RsetCmd(s) ==
  /\ Dispatching(s, "RSET")
  /\ state' = [state EXCEPT ![s] = reset(@)]
  /\ Send(s, <<Answer(Ok, "OK")>>)
  /\ ArmDone(s)

\* case smtp.StartTlsCmd, up to the call of proto.StartTls
StartTlsCmd(s) ==
  /\ Dispatching(s, "STARTTLS")
  /\ UNCHANGED <<supVars, genVars, state, quit, c, err, helpers, chunks,
                 yielded, calls, closed, msgs, arg, reads, prev, tlsErr,
                 crashed>>
  /\ IF ~hasTls
       THEN /\ Send(s, <<Answer(NotImplemented, "STARTTLS is not implemented")>>)
            /\ pc' = [pc EXCEPT ![s] = "next"]
       ELSE IF state[s].Secure
       THEN /\ Send(s, <<Answer(NotImplemented, "Already in TLS mode")>>)
            /\ pc' = [pc EXCEPT ![s] = "next"]
       ELSE /\ Send(s, <<Answer(Ready, "Ready for TLS handshake")>>)
            /\ pc' = [pc EXCEPT ![s] = "startTls"]

\* proto.StartTls(s.TlsConfig) returns an error and Secure gets set all the same
StartTlsFail_SetsSecure(s) ==
  /\ ~crashed
  /\ pc[s] = "startTls"
  /\ tlsErr' = [tlsErr EXCEPT ![s] = "error"]
  /\ state' = [state EXCEPT ![s] = [reset(@) EXCEPT !.Secure = TRUE]]
  /\ pc' = [pc EXCEPT ![s] = "next"]
  /\ UNCHANGED <<supVars, genVars, quit, c, err, helpers, chunks, yielded,
                 sent, first, calls, closed, msgs, arg, reads, prev, crashed>>

\* proto.StartTls(s.TlsConfig) returns an error: log and break
StartTlsFail(s) ==
  /\ ~crashed
  /\ pc[s] = "startTls"
  /\ tlsErr' = [tlsErr EXCEPT ![s] = "error"]
  /\ pc' = [pc EXCEPT ![s] = "next"]
  /\ UNCHANGED <<supVars, genVars, state, quit, c, err, helpers, chunks,
                 yielded, sent, first, calls, closed, msgs, arg, reads, prev,
                 crashed>>

\* proto.StartTls(s.TlsConfig) returns nil and Secure is set without the reset
StartTlsOk_NoReset(s) ==
  /\ ~crashed
  /\ pc[s] = "startTls"
  /\ tlsErr' = [tlsErr EXCEPT ![s] = "nil"]
  /\ state' = [state EXCEPT ![s].Secure = TRUE]
  /\ pc' = [pc EXCEPT ![s] = "next"]
  /\ UNCHANGED <<supVars, genVars, quit, c, err, helpers, chunks, yielded,
                 sent, first, calls, closed, msgs, arg, reads, prev, crashed>>

\* proto.StartTls(s.TlsConfig) returns nil: state.reset(); state.Secure = true
StartTlsOk(s) ==
  /\ ~crashed
  /\ pc[s] = "startTls"
  /\ tlsErr' = [tlsErr EXCEPT ![s] = "nil"]
  /\ state' = [state EXCEPT ![s] = [reset(@) EXCEPT !.Secure = TRUE]]
  /\ pc' = [pc EXCEPT ![s] = "next"]
  /\ UNCHANGED <<supVars, genVars, quit, c, err, helpers, chunks, yielded,
                 sent, first, calls, closed, msgs, arg, reads, prev, crashed>>

\* NOOP is dispatched and not answered
NoopCmd_NoReply(s) ==
  /\ Dispatching(s, "NOOP")
  /\ UNCHANGED <<state, sent, first>>
  /\ ArmDone(s)

\* case smtp.NoopCmd
NoopCmd(s) ==
  /\ Dispatching(s, "NOOP")
  /\ Send(s, <<Answer(Ok, "OK")>>)
  /\ UNCHANGED state
  /\ ArmDone(s)

\* case smtp.VrfyCmd, smtp.ExpnCmd, smtp.SendCmd, smtp.SomlCmd, smtp.SamlCmd
NotImplCmd(s) ==
  /\ ~crashed
  /\ pc[s] = "dispatch"
  /\ c[s].kind \in NotImplKinds
  /\ Send(s, <<Answer(NotImplemented, "Command not implemented")>>)
  /\ UNCHANGED state
  /\ ArmDone(s)

\* case smtp.InvalidCmd
InvalidCmd(s) ==
  /\ Dispatching(s, "INVALID")
  /\ Send(s, <<Answer(SyntaxErrorParam, InvalidInfo)>>)
  /\ UNCHANGED state
  /\ ArmDone(s)

\* case smtp.UnknownCmd
UnknownCmd(s) ==
  /\ Dispatching(s, "UNKNOWN")
  /\ Send(s, <<Answer(SyntaxError, "Command not recognized")>>)
  /\ UNCHANGED state
  /\ ArmDone(s)

\* ------------------------------------------------------------ specification
\* the supervisor and the lifecycle of a session: what runs when clients connect
\* and send nothing
NextSup ==
  \/ StopShutdown
  \/ StopQuit
  \/ Listen
  \/ ListenFail
  \/ Closer
  \/ Accept
  \/ AcceptTemporary
  \/ AcceptClosed
  \/ AcceptFatal
  \/ Wait
  \/ \E s \in Conns : Serve(s)
  \/ \E s \in Conns : ServeNoProto(s)
  \/ \E s \in Conns : ServeDone(s)
  \/ \E s \in Conns : GenLock(s)
  \/ \E s \in Conns : GenInc(s)
  \/ \E s \in Conns : GenRet(s)
  \/ \E s \in Conns : Greet(s)
  \/ \E s \in Conns : NextCmd(s)
  \/ \E s \in Conns : \E h \in DOMAIN helpers[s] : HelperGetErr(s, h)
  \/ \E s \in Conns : \E h \in DOMAIN helpers[s] : HelperHandoff(s, h)
  \/ \E s \in Conns : \E h \in DOMAIN helpers[s] : HelperBlock(s, h)
  \/ \E s \in Conns : \E h \in DOMAIN helpers[s] : SelectCmd(s, h)
  \/ \E s \in Conns : SelectPark(s)
  \/ \E s \in Conns : SelectQuit(s)
  \/ \E s \in Conns : Close(s)

\* the steps that need a line from the client
NextCmds ==
  \/ \E s \in Conns : \E h \in DOMAIN helpers[s] : HelperGetCmd(s, h)
  \/ \E s \in Conns : \E h \in DOMAIN helpers[s] : HelperGetLtl(s, h)
  \/ \E s \in Conns : \E h \in DOMAIN helpers[s] : HelperSendLtl(s, h)
  \/ \E s \in Conns : HeloCmd(s)
  \/ \E s \in Conns : EhloCmd(s)
  \/ \E s \in Conns : QuitCmd(s)
  \/ \E s \in Conns : MailCmd(s)
  \/ \E s \in Conns : RcptCmd(s)
  \/ \E s \in Conns : DataCmd(s)
  \/ \E s \in Conns : RsetCmd(s)
  \/ \E s \in Conns : StartTlsCmd(s)
  \/ \E s \in Conns : StartTlsOk(s)
  \/ \E s \in Conns : StartTlsFail(s)
  \/ \E s \in Conns : NoopCmd(s)
  \/ \E s \in Conns : NotImplCmd(s)
  \/ \E s \in Conns : InvalidCmd(s)
  \/ \E s \in Conns : UnknownCmd(s)
  \/ \E s \in Conns : ReadAllLtl(s)
  \/ \E s \in Conns : ReadAllIncomplete(s)
  \/ \E s \in Conns : ReadAllPanic(s)
  \/ \E s \in Conns : ReadAllDone(s)
  \/ \E s \in Conns : HandleMail(s)
  \/ \E s \in Conns : HandleMailPanic(s)
  \/ \E s \in Conns : MailDelivered(s)

Next == NextSup \/ NextCmds

\* one connection, the whole engine
Spec == Init /\ [][Next]_vars

\* several connections of clients that send nothing: NextSup has every step
\* these runs can take
SpecSup == InitSup /\ [][NextSup]_vars

\* the steps of a server that is not stopped, with a client that sends MAIL,
\* RCPT and DATA commands and message bodies
NextData ==
  \/ Listen
  \/ Accept
  \/ \E s \in Conns : Serve(s)
  \/ \E s \in Conns : ServeDone(s)
  \/ \E s \in Conns : GenLock(s)
  \/ \E s \in Conns : GenInc(s)
  \/ \E s \in Conns : GenRet(s)
  \/ \E s \in Conns : Greet(s)
  \/ \E s \in Conns : NextCmd(s)
  \/ \E s \in Conns : \E h \in DOMAIN helpers[s] : HelperGetEnvelope(s, h)
  \/ \E s \in Conns : \E h \in DOMAIN helpers[s] : HelperGetErr(s, h)
  \/ \E s \in Conns : \E h \in DOMAIN helpers[s] : HelperHandoff(s, h)
  \/ \E s \in Conns : \E h \in DOMAIN helpers[s] : HelperBlock(s, h)
  \/ \E s \in Conns : \E h \in DOMAIN helpers[s] : SelectCmd(s, h)
  \/ \E s \in Conns : SelectPark(s)
  \/ \E s \in Conns : Close(s)
  \/ \E s \in Conns : MailCmd(s)
  \/ \E s \in Conns : RcptCmd(s)
  \/ \E s \in Conns : DataCmd(s)
  \/ \E s \in Conns : ReadAllLtl(s)
  \/ \E s \in Conns : ReadAllIncomplete(s)
  \/ \E s \in Conns : ReadAllPanic(s)
  \/ \E s \in Conns : ReadAllDone(s)
  \/ \E s \in Conns : HandleMail(s)
  \/ \E s \in Conns : HandleMailPanic(s)
  \/ \E s \in Conns : MailDelivered(s)

\* one connection, several messages
SpecData == InitData /\ [][NextData]_vars

TypeOK ==
  /\ wg \in 0..MaxConn
  /\ globalCounter \in (0..(Half - 1)) \X (0..(Half - 1))
  /\ \A s \in Conns : Len(helpers[s]) <= 1

\* ================================================================== claims
\* the envelope of a State is empty
Cleared(st) ==
  st.From = Nil /\ st.To = <<>> /\ st.Data = <<>> /\ st.EightBitMIME = FALSE

\* the step is one of connection s, starting its dispatch arm
Arm(s) == pc[s] = "dispatch" /\ pc'[s] # "dispatch"

Reply503(reason) == [Status |-> 503, Messages |-> <<reason>>]
Reply250(message) == [Status |-> 250, Messages |-> <<message>>]

\* C1: HandleMail is only ever called with a State whose From is set and whose
\* To holds at least one address.
C1_HandlerNeedsEnvelope ==
  \A s \in Conns : calls[s] > 0 => arg[s].From # Nil /\ Len(arg[s].To) >= 1

\* a handler call is running, on an envelope with a sender and two recipients
C1_Witness ==
  \E s \in Conns : pc[s] = "inHandler" /\ arg[s].From # Nil /\ Len(arg[s].To) = 2

\* the reason a command of kind k is refused with in State st ("" if accepted)
Refusal(k, st) ==
  IF k = "MAIL" /\ st.From # Nil THEN "Sender already specified"
  ELSE IF k = "RCPT" /\ st.From = Nil THEN "Need mail before RCPT"
  ELSE IF k = "DATA" /\ st.From = Nil THEN "Need mail before DATA"
  ELSE IF k = "DATA" /\ st.To = <<>> THEN "Need RCPT before DATA"
  ELSE ""

\* C2: a MAIL, RCPT or DATA whose precondition fails is answered with exactly
\* one reply, 503 with the reason of the claim (for DATA the missing sender
\* first), leaves the State as it was, sends no 354 and calls no handler.
C2_RejectedChangesNothing ==
  [][\A s \in Conns :
       (Arm(s) /\ Refusal(c[s].kind, state[s]) # "") =>
         /\ sent'[s] = sent[s] \o <<Reply503(Refusal(c[s].kind, state[s]))>>
         /\ state'[s] = state[s]
         /\ calls'[s] = calls[s]
         /\ pc'[s] = "next"]_vars

\* a DATA was refused for want of a recipient, and the sender is still set
C2_Witness ==
  \E s \in Conns :
    /\ pc[s] = "next"
    /\ c[s].kind = "DATA"
    /\ sent[s] = <<Reply503("Need RCPT before DATA")>>
    /\ state[s].From # Nil

\* C3: when a DATA command has been delivered the envelope is empty before the
\* read of the next command starts, and the command that follows is refused
\* with 503 if it is RCPT or DATA and accepted if it is MAIL.
C3_ResetAfterData ==
  [][\A s \in Conns :
       /\ (pc[s] = "inHandler" /\ pc'[s] = "next") =>
            Cleared(state'[s]) /\ helpers'[s] = <<>>
       /\ (Arm(s) /\ prev[s] = "DATA") =>
            /\ c[s].kind = "RCPT" =>
                 sent'[s] = <<Reply503("Need mail before RCPT")>>
            /\ c[s].kind = "DATA" =>
                 sent'[s] = <<Reply503("Need mail before DATA")>>
            /\ c[s].kind = "MAIL" =>
                 /\ sent'[s] \in {<<Reply250("Sender ok")>>,
                                  <<Reply250("Sender and 8BITMIME ok")>>}
                 /\ state'[s].From = c[s].addr]_vars

\* an RCPT that came right after a delivered DATA was refused
C3_Witness ==
  \E s \in Conns :
    /\ prev[s] = "DATA"
    /\ pc[s] = "next"
    /\ c[s].kind = "RCPT"
    /\ sent[s] = <<Reply503("Need mail before RCPT")>>

\* the step of connection s calls reset and nothing else touches its State
ResetStep(s) ==
  \/ Arm(s) /\ c[s].kind \in {"RSET", "EHLO"}
  \/ pc[s] = "inHandler" /\ pc'[s] = "next"
  \/ pc[s] = "tryAgain" /\ pc'[s] = "next"
  \/ pc[s] = "serve" /\ pc'[s] = "genLock"

\* C4: every reset empties the envelope and leaves SessionId, Ip and Secure as
\* they were (the reset of a successful STARTTLS is followed by Secure = true);
\* RSET is answered 250 "OK", and after it MAIL is accepted, then RCPT, then DATA.
C4_ResetFrame ==
  [][\A s \in Conns :
       /\ ResetStep(s) =>
            /\ Cleared(state'[s])
            /\ state'[s].SessionId = state[s].SessionId
            /\ state'[s].Ip = state[s].Ip
            /\ state'[s].Secure = state[s].Secure
       /\ (pc[s] = "startTls" /\ pc'[s] = "next" /\ state'[s] # state[s]) =>
            /\ Cleared(state'[s])
            /\ state'[s].SessionId = state[s].SessionId
            /\ state'[s].Ip = state[s].Ip
            /\ state'[s].Secure
       /\ (Arm(s) /\ c[s].kind = "RSET") => sent'[s] = <<Reply250("OK")>>
       /\ (Arm(s) /\ c[s].kind = "MAIL" /\ prev[s] = "RSET") =>
            state'[s].From = c[s].addr /\ sent'[s][1].Status = 250
       /\ (Arm(s) /\ c[s].kind = "RCPT" /\ state[s].From # Nil) =>
            /\ state'[s].To = Append(state[s].To, c[s].addr)
            /\ sent'[s] = <<Reply250("OK")>>
       /\ (Arm(s) /\ c[s].kind = "DATA" /\ state[s].From # Nil
             /\ state[s].To # <<>>) =>
            sent'[s][1].Status = 354 /\ pc'[s] = "tryAgain"]_vars

\* a MAIL right after an RSET was accepted, on a connection that is secure and
\* has its id and address
C4_Witness ==
  \E s \in Conns :
    /\ prev[s] = "RSET"
    /\ pc[s] = "next"
    /\ c[s].kind = "MAIL"
    /\ state[s].From # Nil
    /\ state[s].Secure
    /\ state[s].Ip = s
    /\ state[s].SessionId # <<0, 0>>

\* where a session is once it has left its command loop
Leaving == {"close", "exit", "done"}

\* C5: at most one command read is outstanding in a session, and while one is
\* outstanding the session waits for it or has left its loop: a read starts
\* only where the switch has finished with the command before, all its replies
\* written.
C5_Sequential ==
  /\ [](\A s \in Conns :
         /\ Len(helpers[s]) <= 1
         /\ helpers[s] # <<>> =>
              pc[s] \in {"select", "parked", "woken"} \cup Leaving)
  /\ [][\A s \in Conns :
         Len(helpers'[s]) > Len(helpers[s]) =>
           /\ pc[s] = "next"
           /\ helpers[s] = <<>>
           /\ sent'[s] = <<>>]_vars

\* the third line is being read while the session waits; the command before,
\* an RSET, was answered
C5_Witness ==
  \E s \in Conns :
    /\ helpers[s] # <<>>
    /\ helpers[s][1].pc = "getcmd"
    /\ pc[s] = "parked"
    /\ reads[s] >= 2
    /\ prev[s] = "RSET"

\* the replies as are 354, then any number of 500 "Line too long", then one of
\* the final replies of an accepted DATA
DataReplies(as) ==
  /\ Len(as) >= 2
  /\ as[1].Status = StartData
  /\ \A i \in 2..(Len(as) - 1) : as[i] = Answer(SyntaxError, "Line too long")
  /\ as[Len(as)] \in {Answer(Ok, "Mail delivered"),
                      Answer(SyntaxError, "Could not parse mail data")}

C7_SecureOnce ==
  /\ [](\A s \in Conns :
         pc[s] \in {"idle", "serve", "genLock", "genInc", "genRet", "greet"} =>
           ~state[s].Secure)
  /\ [][\A s \in Conns :
         /\ state'[s].Secure # state[s].Secure =>
              /\ ~state[s].Secure
              /\ pc[s] = "startTls"
              /\ tlsErr'[s] = "nil"
         /\ (pc[s] = "startTls" /\ tlsErr'[s] = "error") =>
              /\ state'[s] = state[s]
              /\ pc'[s] = "next"
         /\ (ResetStep(s) /\ state[s].Secure) => state'[s].Secure]_vars

\* the command before ended with a reset, and the session is still secure
C7_Witness ==
  \E s \in Conns :
    /\ state[s].Secure
    /\ prev[s] \in {"EHLO", "RSET", "DATA", "INCOMPLETE"}
    /\ pc[s] = "select"

Greeting == Answer(Ready, Hostname \o " Service Ready")

GoingDown == Answer(ShuttingDown, "Server is going down.")

\* the 421 reply is among the replies as
Said421(as) == \E i \in DOMAIN as : as[i] = GoingDown

\* the goroutine of a session is scheduled when it can run: leaving the select
\* with the quit case, closing the connection and returning do not block
QuitFairness ==
  \A s \in Conns :
    WF_vars(SelectQuit(s)) /\ WF_vars(Close(s)) /\ WF_vars(ServeDone(s))

\* one client, which sends up to FairCmds lines
InitFair ==
  /\ Start
  /\ globalCounter = <<0, 0>>
  /\ conns = 1
  /\ lines = [s \in Conns |-> IF s = 1 THEN FairCmds ELSE 0]

\* one connection, the whole engine, sessions scheduled
FairSpec == InitFair /\ [][Next]_vars /\ QuitFairness

\* C9: a session blocked in the select of nextCmd when quitC is closed goes on
\* to send 421 "Server is going down.", to close its connection and to end,
\* whatever the client does; the quit case of the select writes the 421 and
\* leaves the loop, and a session that left its loop dispatches nothing.
C9_QuitEnds ==
  /\ \A s \in Conns :
       (pc[s] = "woken") ~>
         (pc[s] = "done" /\ closed[s] = 1 /\ Said421(sent[s]))
  /\ [][\A s \in Conns :
         /\ pc[s] = "woken" => pc'[s] \in {"woken", "close"}
         /\ (pc[s] \in {"select", "woken"} /\ pc'[s] = "close"
               /\ helpers'[s] = helpers[s]) =>
              sent'[s] = Append(sent[s], GoingDown)
         /\ pc[s] \in Leaving => pc'[s] \in Leaving]_vars

\* a session that had read a command ended with the 421, its read still
\* outstanding
C9_Witness ==
  \E s \in Conns :
    /\ pc[s] = "done"
    /\ quitC = "closed"
    /\ reads[s] >= 1
    /\ sent[s] = <<GoingDown>>
    /\ closed[s] = 1
    /\ helpers[s] # <<>>
    /\ helpers[s][1].pc = "getcmd"

\* C10: when ListenAndServe has returned, every connection that was accepted
\* has a session that ended, and the WaitGroup counts none.
C10_JoinBarrier ==
  lasPc = "returned" =>
    /\ wg = 0
    /\ \A s \in Conns : pc[s] = (IF s <= accepted THEN "done" ELSE "idle")

\* ListenAndServe has returned after two sessions, one ended by the 421 of the
\* shutdown and one by its client going away
C10_Witness ==
  /\ lasPc = "returned"
  /\ accepted >= 2
  /\ \E s \in Conns : pc[s] = "done" /\ Said421(sent[s])
  /\ \E s \in Conns : pc[s] = "done" /\ sent[s] = <<>> /\ first[s] = Greeting

\* the step of connection s writes the 421 reply
Writes421(s) ==
  /\ Len(sent'[s]) = Len(sent[s]) + 1
  /\ sent'[s][Len(sent'[s])] = GoingDown

\* C11: quitC is closed only after shutDownC; the listener is closed without an
\* error only after shutDownC was closed, and listen returns nil only through
\* the closed listener; no connection is accepted on a closed listener; the
\* close of shutDownC touches no session, and while quitC is open no session
\* writes 421 or leaves its loop but by QUIT, by a failed read or for want of a
\* protocol.
C11_TwoPhase ==
  /\ [](/\ quitC = "closed" => shutDownC = "closed"
        /\ (ln = "closed" /\ lasErr = "nil") => shutDownC = "closed"
        /\ (lasPc \in {"wait", "returned"} /\ lasErr = "nil") => ln = "closed")
  /\ [][/\ accepted' # accepted => ln = "open" /\ ln' = "open"
        /\ shutDownC' # shutDownC =>
             /\ sessVars' = sessVars
             /\ quitC' = "open"
             /\ ln' = ln
             /\ wg' = wg
        /\ \A s \in Conns :
             /\ Writes421(s) => quitC = "closed"
             /\ (quitC' = "open" /\ pc[s] \notin Leaving
                   /\ pc'[s] \in Leaving) =>
                  \/ Arm(s) /\ c[s].kind = "QUIT"
                  \/ helpers[s] # <<>> /\ helpers[s][1].val
                  \/ pc[s] = "serve"]_vars

\* the listener was closed by the shutdown and listen has returned; quitC is
\* open and the session, two lines read, has a MAIL to dispatch
C11_Witness ==
  \E s \in Conns :
    /\ shutDownC = "closed"
    /\ quitC = "open"
    /\ ln = "closed"
    /\ lasPc = "wait"
    /\ lasErr = "nil"
    /\ pc[s] = "dispatch"
    /\ c[s].kind = "MAIL"
    /\ reads[s] >= 2

\* C12 as stated: a session that has ended, by return or by panic, has closed
\* its connection.
C12_ClosedOnEveryExit ==
  \A s \in Conns : pc[s] \in {"done", "panicked"} => closed[s] >= 1

\* generateSessionId has returned to session s
HasId(s) == pc[s] = "greet" \/ first[s] # NoAnswer

\* x + k on a uint32
RECURSIVE IncBy(_, _)
IncBy(x, k) == IF k = 0 THEN x ELSE IncBy(Inc32(x), k - 1)

\* y is x plus at least 1 and at most MaxConn, modulo 2^32
Later(x, y) == \E k \in 1..MaxConn : IncBy(x, k) = y

\* C13: the sessions between Lock and Unlock are at most one, the holder of
\* globalCounterLock; the counter moves only by the holder's increment; the
\* id a call returns is the counter, which is later (modulo 2^32) than the id
\* of every session that got one before; so no two sessions have the same id.
C13_UniqueIds ==
  /\ [](\A s, t \in Conns :
         /\ pc[s] \in {"genInc", "genRet"} <=> globalCounterLock = s
         /\ (s # t /\ HasId(s) /\ HasId(t)) =>
              state[s].SessionId # state[t].SessionId)
  /\ [][\A s \in Conns :
         /\ (globalCounter' # globalCounter /\ pc[s] = "genInc"
               /\ pc'[s] = "genRet") =>
              globalCounter' = Inc32(globalCounter) /\ globalCounterLock = s
         /\ globalCounter' # globalCounter =>
              \E t \in Conns : pc[t] = "genInc" /\ pc'[t] = "genRet"
         /\ (pc[s] = "genRet" /\ pc'[s] = "greet") =>
              /\ state'[s].SessionId = globalCounter
              /\ \A t \in Conns \ {s} :
                   HasId(t) => Later(state[t].SessionId, state'[s].SessionId)
         /\ (HasId(s) /\ pc[s] # "idle") =>
              state'[s].SessionId = state[s].SessionId]_vars

\* two sessions got their ids after the counter wrapped from 2^32 - 1: one
\* got 0, the other 1
C13_Witness ==
  \E s, t \in Conns :
    /\ HasId(s) /\ HasId(t)
    /\ state[s].SessionId = <<0, 0>>
    /\ state[t].SessionId = <<0, 1>>
    /\ globalCounter = <<0, 1>>
    /\ pc[s] = "parked" /\ pc[t] = "parked"

\* where a session is between the 354 of an accepted DATA and the end of that
\* command
InData == {"tryAgain", "handle", "inHandler"}

C15_HandlerData ==
  /\ [](\A s \in Conns :
         /\ pc[s] \in InData => state[s].Data = yielded[s]
         /\ pc[s] \notin InData \cup {"panicked"} =>
              state[s].Data = <<>> /\ yielded[s] = <<>>
         /\ calls[s] > 0 => arg[s].Data = yielded[s])
  /\ [][\A s \in Conns :
         /\ (Arm(s) /\ pc'[s] = "tryAgain") =>
              state'[s].Data = <<>> /\ yielded'[s] = <<>>
         /\ (pc[s] = "tryAgain" /\ pc'[s] = "tryAgain"
               /\ chunks'[s] # chunks[s]) =>
              /\ \E tmpData \in Chunk :
                   /\ yielded'[s] = yielded[s] \o tmpData
                   /\ state'[s].Data = state[s].Data \o tmpData
              /\ sent'[s] = Append(sent[s], Answer(SyntaxError, "Line too long"))
         /\ (pc[s] = "tryAgain" /\ pc'[s] = "handle") =>
              /\ \E tmpData \in Chunk :
                   /\ yielded'[s] = yielded[s] \o tmpData
                   /\ state'[s].Data = state[s].Data \o tmpData
              /\ sent'[s] = sent[s]
         /\ (pc[s] = "handle" /\ pc'[s] = "inHandler") =>
              arg'[s].Data = yielded[s] /\ yielded'[s] = yielded[s]]_vars

\* the handler runs for the second DATA command of the session on the bytes
\* 7, 8, read before and after an over-long line
C15_Witness ==
  \E s \in Conns :
    /\ pc[s] = "inHandler"
    /\ msgs[s] = 2
    /\ arg[s].Data = <<7, 8>>
    /\ yielded[s] = <<7, 8>>
    /\ Len(sent[s]) = 2
    /\ sent[s][2] = Answer(SyntaxError, "Line too long")

CouldNotParse == Answer(SyntaxError, "Could not parse mail data")

\* C16: the step that ends a DATA command without the handler writes 500
\* "Could not parse mail data" after replies that hold no 250, empties the
\* envelope, keeps the connection open and the loop running, with no handler
\* call made for this command; the session then starts the read of the next
\* command, and a MAIL that comes next is accepted.
C16_Incomplete ==
  /\ [](\A s \in Conns : prev[s] = "INCOMPLETE" => calls[s] = 0)
  /\ [][\A s \in Conns :
         /\ (pc[s] = "tryAgain" /\ pc'[s] \notin {"tryAgain", "handle", "panicked"}) =>
              /\ sent'[s] = Append(sent[s], CouldNotParse)
              /\ \A i \in DOMAIN sent'[s] : sent'[s][i].Status # Ok
              /\ Cleared(state'[s])
              /\ state'[s].Secure = state[s].Secure
              /\ calls[s] = 0 /\ calls'[s] = 0
              /\ pc'[s] = "next"
              /\ quit'[s] = FALSE
              /\ closed'[s] = 0
         /\ (pc[s] = "next" /\ pc'[s] # "next") =>
              /\ pc'[s] = "select"
              /\ Len(helpers'[s]) = 1
              /\ helpers'[s][1].pc = "getcmd"
         /\ (Arm(s) /\ prev[s] = "INCOMPLETE" /\ c[s].kind = "MAIL") =>
              /\ state'[s].From = c[s].addr
              /\ sent'[s][1].Status = Ok]_vars

\* the command after a DATA that ended incomplete was a MAIL, and was accepted
C16_Witness ==
  \E s \in Conns :
    /\ prev[s] = "INCOMPLETE"
    /\ pc[s] = "next"
    /\ c[s].kind = "MAIL"
    /\ state[s].From = c[s].addr
    /\ closed[s] = 0

TooLong == Answer(SyntaxError, "Line too long.")

\* the helper of connection s is at p
HelperAt(s, p) == helpers[s] # <<>> /\ helpers[s][1].pc = p

\* C17: when the read of a command fails with ErrLtl the helper posts nothing:
\* the session stays where it is, its State as it was; the helper then writes
\* one 500 "Line too long." and reads again; that reply is written at no other
\* place, so that a waiting session has seen at most one since the last line
\* was read; a session dispatches only a command that was read without error.
C17_LineTooLong ==
  /\ [](\A s \in Conns :
         /\ (HelperAt(s, "ltl") /\ Waiting(s)) => sent[s] = <<>>
         /\ (HelperAt(s, "getcmd") /\ Waiting(s)) => sent[s] \in {<<>>, <<TooLong>>}
         /\ HelperAt(s, "ltl") => err[s] = "ErrLtl" /\ c[s] = NoCmd
         /\ pc[s] = "dispatch" => err[s] = "nil" /\ c[s] \in Cmds)
  /\ [][\A s \in Conns :
         /\ (HelperAt(s, "getcmd") /\ HelperAt(s, "ltl")') =>
              /\ state'[s] = state[s]
              /\ pc'[s] = pc[s]
              /\ reads'[s] = reads[s] + 1
         /\ (HelperAt(s, "ltl") /\ helpers'[s] # helpers[s]) =>
              /\ HelperAt(s, "getcmd")'
              /\ sent'[s] = Append(sent[s], TooLong)
              /\ state'[s] = state[s]
              /\ pc'[s] = pc[s]
              /\ reads'[s] = reads[s]
         /\ (Len(sent'[s]) > Len(sent[s]) /\ sent'[s][Len(sent'[s])] = TooLong) =>
              HelperAt(s, "ltl")]_vars

\* an over-long line came after an accepted MAIL: it was answered 500, the
\* sender is still there, and the helper reads again while the session waits
C17_Witness ==
  \E s \in Conns :
    /\ HelperAt(s, "getcmd")
    /\ pc[s] = "parked"
    /\ sent[s] = <<TooLong>>
    /\ state[s].From # Nil
    /\ reads[s] = 2
    /\ reads[s] < lines[s]

\* C18 as stated: once the read of a command has failed with an error other
\* than ErrLtl, no reply is written on the connection, nothing is dispatched
\* and the handler is not called.
C18_SilentEnd ==
  [][\A s \in Conns :
       err[s] = "error" =>
         /\ sent'[s] = sent[s]
         /\ pc'[s] # "dispatch"
         /\ calls'[s] = calls[s]]_vars

\* C18: once the read of a command has failed with an error other than ErrLtl,
\* the session is in its select or past its loop; it dispatches nothing, calls
\* no handler and reads no more; when it receives the failure it leaves the
\* loop with no reply; the one reply that can still be written is the 421 of
\* the quit case, taken with quitC closed in place of the failure; a session
\* that ended has closed its connection once.
C18_SilentUnlessQuit ==
  /\ [](\A s \in Conns :
         err[s] = "error" =>
           /\ pc[s] \in {"select", "parked", "woken"} \cup Leaving
           /\ calls[s] = 0
           /\ pc[s] = "done" => closed[s] = 1)
  /\ [][\A s \in Conns :
         err[s] = "error" =>
           /\ pc'[s] # "dispatch"
           /\ calls'[s] = calls[s]
           /\ reads'[s] = reads[s]
           /\ err'[s] = "error"
           /\ sent'[s] # sent[s] =>
                /\ Writes421(s)
                /\ quitC = "closed"
                /\ helpers'[s] = helpers[s]
           /\ (helpers[s] # <<>> /\ helpers'[s] = <<>>) =>
                /\ sent'[s] = sent[s]
                /\ quit'[s]
                /\ pc'[s] = "close"]_vars

\* a session whose second read failed ended without a reply after the one to
\* its first command, its connection closed
C18_Witness ==
  \E s \in Conns :
    /\ err[s] = "error"
    /\ pc[s] = "done"
    /\ reads[s] = 1
    /\ sent[s] = <<>>
    /\ first[s] = Greeting
    /\ helpers[s] = <<>>
    /\ closed[s] = 1

ReadyForTls == Answer(Ready, "Ready for TLS handshake")

\* the step of connection s is the return of its call of proto.StartTls
StartTlsReturns(s) == tlsErr[s] = "none" /\ tlsErr'[s] # "none"

\* C19: proto.StartTls is called only with a TlsConfig, on a session that is
\* not secure, and with 220 "Ready for TLS handshake" the last reply written;
\* without a TlsConfig STARTTLS is answered 502 "STARTTLS is not implemented",
\* on a secure session 502 "Already in TLS mode", both with the State as it
\* was and no call; when the call returns nil the envelope is reset and Secure
\* is true, so that a sender given before is gone and RCPT is refused.
C19_StartTls ==
  /\ [](\A s \in Conns :
         pc[s] = "startTls" =>
           /\ hasTls
           /\ ~state[s].Secure
           /\ c[s].kind = "STARTTLS"
           /\ sent[s] # <<>>
           /\ sent[s][Len(sent[s])] = ReadyForTls)
  /\ [][\A s \in Conns :
         /\ StartTlsReturns(s) => pc[s] = "startTls" /\ sent'[s] = sent[s]
         /\ (Arm(s) /\ c[s].kind = "STARTTLS") =>
              /\ state'[s] = state[s]
              /\ tlsErr'[s] = "none"
              /\ sent'[s] = Append(sent[s],
                    IF ~hasTls
                      THEN Answer(NotImplemented, "STARTTLS is not implemented")
                    ELSE IF state[s].Secure
                      THEN Answer(NotImplemented, "Already in TLS mode")
                    ELSE ReadyForTls)
              /\ pc'[s] = IF hasTls /\ ~state[s].Secure THEN "startTls"
                                                        ELSE "next"
         /\ (StartTlsReturns(s) /\ tlsErr'[s] = "nil") =>
              /\ Cleared(state'[s])
              /\ state'[s].Secure
              /\ state'[s].SessionId = state[s].SessionId
              /\ ~canReceiveRcpt(state'[s])[1]
              /\ ~canReceiveData(state'[s])[1]]_vars

\* after a STARTTLS that succeeded, RCPT was refused for want of a sender
C19_Witness ==
  \E s \in Conns :
    /\ pc[s] = "next"
    /\ state[s].Secure
    /\ prev[s] = "STARTTLS"
    /\ c[s].kind = "RCPT"
    /\ sent[s] = <<Answer(BadSequence, "Need mail before RCPT")>>

\* the last reply written on connection s, after the step
LastSent(s) == sent'[s][Len(sent'[s])]

\* the reply lists STARTTLS among its lines
Advertises(a) == \E i \in DOMAIN a.Messages : a.Messages[i] = "STARTTLS"

\* C20: EHLO, whatever the State, empties the envelope and leaves Secure and
\* SessionId as they were, so that RCPT and DATA are refused after it; it
\* writes one 250 reply whose lines are the host name, 8BITMIME, STARTTLS
\* exactly when there is a TlsConfig and the session is not secure, and OK;
\* STARTTLS is answered 220 in exactly the States in which EHLO lists it, and
\* a secure session is never told STARTTLS.
C20_Ehlo ==
  /\ [](\A s \in Conns :
         (pc[s] = "next" /\ c[s].kind = "EHLO") =>
           /\ Len(sent[s]) >= 1
           /\ Advertises(sent[s][Len(sent[s])]) <=> (hasTls /\ ~state[s].Secure)
           /\ state[s].Secure => ~Advertises(sent[s][Len(sent[s])]))
  /\ [][\A s \in Conns :
         /\ (Arm(s) /\ c[s].kind = "EHLO") =>
              /\ Cleared(state'[s])
              /\ state'[s].Secure = state[s].Secure
              /\ state'[s].SessionId = state[s].SessionId
              /\ ~canReceiveRcpt(state'[s])[1]
              /\ ~canReceiveData(state'[s])[1]
              /\ canReceiveMail(state'[s])[1]
              /\ Len(sent'[s]) = Len(sent[s]) + 1
              /\ SubSeq(sent'[s], 1, Len(sent[s])) = sent[s]
              /\ LastSent(s).Status = 250
              /\ LastSent(s).Messages =
                    IF hasTls /\ ~state[s].Secure
                      THEN <<Hostname, "8BITMIME", "STARTTLS", "OK">>
                      ELSE <<Hostname, "8BITMIME", "OK">>
              /\ pc'[s] = "next"
         /\ (Arm(s) /\ c[s].kind = "STARTTLS") =>
              (LastSent(s) = ReadyForTls <=> (hasTls /\ ~state[s].Secure))]_vars

\* EHLO right after a STARTTLS that succeeded: the reply has no STARTTLS line
C20_Witness ==
  \E s \in Conns :
    /\ pc[s] = "next"
    /\ c[s].kind = "EHLO"
    /\ prev[s] = "STARTTLS"
    /\ hasTls
    /\ state[s].Secure
    /\ sent[s] = <<MultiAnswer(Ok, <<Hostname, "8BITMIME", "OK">>)>>

\* the session of connection s has left its loop for good
Ended(s) == pc[s] \in {"exit", "done"}

\* C21 as stated: no helper is left blocked in its send on cmdC by a session
\* that has ended; cmdC is local to HandleClient, so nothing receives from it
\* once the session has left nextCmd.
C21_HelperFinishes ==
  \A s \in Conns :
    Ended(s) => \A h \in DOMAIN helpers[s] : helpers[s][h].pc # "blocked"

\* a helper blocked in its send when its session is past the select stays so
C21_BlockedForGood ==
  [][\A s \in Conns :
       (pc[s] \in {"close", "exit", "done"} /\ HelperAt(s, "blocked")) =>
         helpers'[s] = helpers[s]]_vars

\* the step writes 500 "Line too long." on connection s
WritesTooLong(s) ==
  /\ Len(sent'[s]) = Len(sent[s]) + 1
  /\ sent'[s][Len(sent'[s])] = TooLong

\* C22 as stated: the helper's 500 "Line too long." is not written once the
\* session has written its 421 or has closed the connection.
C22_OneWriter ==
  [][\A s \in Conns :
       WritesTooLong(s) => ~Said421(sent[s]) /\ closed[s] = 0]_vars

====
